---- MODULE Spec2Model ----
(***************************************************************************)
(* A model of package try (github.com/dsnet/try): the E family of raise    *)
(* functions, the deferred handlers Handle, HandleF, Recover and F, and    *)
(* the part of Go's defer/panic/recover machinery they run on.             *)
(*                                                                         *)
(* One goroutine runs a stack of user functions.  Each user function may   *)
(* defer handlers, call the E functions, call another function, panic      *)
(* with a value of its own, or return.  A panic runs the deferred calls    *)
(* of the frames from the innermost outwards; a panic nobody recovers      *)
(* ends the goroutine.                                                     *)
(***************************************************************************)
EXTENDS Integers, Sequences, FiniteSets, TLC

\* ------------------------------------------------------------------ bounds
MaxDepth == 2    \* user frames on the stack
MaxDefers == 2   \* deferred handlers per frame
MaxSteps == 4    \* statements, other than return, executed in one run
MaxLine == 120   \* line numbers given to the formatting on its own
MaxTaskSteps == 3  \* statements, other than return, of one goroutine of several

\* ------------------------------------------------------------- go values
Nil == "nil"
EOF == "EOF"
ErrUnexpectedEOF == "ErrUnexpectedEOF"
Errors == {EOF, ErrUnexpectedEOF}

\* Source files as sequences of characters: the package's file, the file of
\* runtime.Callers, and two user files, the second with a directory part.
TryGo == <<"t", "r", "y", ".", "g", "o">>
ExternGo == <<"r", "/", "e", ".", "g", "o">>
XGo == <<"x", ".", "g", "o">>
YGo == <<"d", "/", "y", ".", "g", "o">>
ZGo == <<"a", "/", "b", "/", "z", ".", "g", "o">>
DirOnly == <<"d", "/">>
Rooted == <<"/", "m">>
FileTable == <<TryGo, ExternGo, XGo, YGo, ZGo, DirOnly, Rooted, <<>> >>
UserFiles == {3, 4}
Lines == {4, 10}
NoPC == <<0, 0>>

\* A program counter is (index into FileTable, line); CallersFrames
\* symbolizes it.
CallersFrames(pc) ==
    IF pc[1] \in 1..Len(FileTable)
    THEN [File |-> FileTable[pc[1]], Line |-> pc[2]]
    ELSE [File |-> <<>>, Line |-> 0]

\* Values of type any, as panic payloads and as results of recover().
NilAny == [kind |-> "nil", error |-> Nil, pc |-> NoPC, val |-> Nil]
wrapError(err, pc) == [kind |-> "wrapError", error |-> err, pc |-> pc, val |-> Nil]
Foreign(v) == [kind |-> "foreign", error |-> Nil, pc |-> NoPC, val |-> v]
ForeignValues == {"boom", EOF}

\* ------------------------------------------------------------ formatting
\* error.Error() of the errors the tests raise.
ErrorText(err) ==
    CASE err = EOF -> <<"E", "O", "F">>
      [] err = ErrUnexpectedEOF ->
           <<"u", "n", "e", "x", "p", "e", "c", "t", "e", "d", " ", "E", "O", "F">>
      [] OTHER -> <<"<", "n", "i", "l", ">">>

\* strconv.Itoa.
DigitChars == <<"0", "1", "2", "3", "4", "5", "6", "7", "8", "9">>

RECURSIVE Itoa(_)
Itoa(n) ==
    IF n < 0 THEN <<"-">> \o Itoa(0 - n)
    ELSE IF n < 10 THEN <<DigitChars[n + 1]>>
    ELSE Itoa(n \div 10) \o <<DigitChars[(n % 10) + 1]>>

\* The loop of wrapError.Error that keeps the last path segment, with the
\* slash found first from the left.
RECURSIVE AfterFirstSlash(_, _)
AfterFirstSlash(file, i) ==
    IF i > Len(file) THEN file
    ELSE IF file[i] = "/" THEN SubSeq(file, i + 1, Len(file))
    ELSE AfterFirstSlash(file, i + 1)

LastSegment_first(file, i) == AfterFirstSlash(file, 1)

\* The loop of wrapError.Error: for i := len(file) - 1; i >= 0; i-- (here
\* i counts from 1).
RECURSIVE LastSegment(_, _)
LastSegment(file, i) ==
    IF i < 1 THEN file
    ELSE IF file[i] = "/" THEN SubSeq(file, i + 1, Len(file))
    ELSE LastSegment(file, i - 1)

\* wrapError.Error.
wrapErrorError(w) ==
    LET frame == CallersFrames(w.pc)
        file == LastSegment(frame.File, Len(frame.File))
    IN  file \o <<":">> \o Itoa(frame.Line) \o <<":", " ">> \o ErrorText(w.error)

\* Unwrap that loses the error.
Unwrap_nil(w) == Nil

\* errors.Unwrap on a recovered payload.
Unwrap(w) == w.error

\* ---------------------------------------------------- the raise functions
\* What a call of an E function does: the values it returns, whether it
\* panics and with what, and the number of stack walks it made.
Returns(vals) == [ret |-> vals, panics |-> FALSE, payload |-> NilAny, walks |-> 0]

\* runtime.Callers(skip, pc[:1]) on the logical call stack cs, whose first
\* element is the frame of runtime.Callers itself.
Callers(skip, cs) == IF skip + 1 <= Len(cs) THEN cs[skip + 1] ELSE NoPC

CallersSkip == 3
eCallersLine == 205
ELine == 212
E1Line == 220
E2Line == 229
E3Line == 238
E4Line == 247

\* e with the skip of a function called directly by the user.
e_skip2(err, cs) ==
    LET we == wrapError(err, Callers(2, <<(<<2, 0>>), (<<1, eCallersLine>>)>> \o cs))
    IN  [ret |-> <<>>, panics |-> TRUE, payload |-> we, walks |-> 1]

\* e without the panic: the E function returns to its caller.
e_returns(err, cs) == [ret |-> <<>>, panics |-> FALSE, payload |-> NilAny, walks |-> 1]

\* e: cs is the logical stack at the call of e, innermost frame first (the
\* E function's frame, then the user frames).
e(err, cs) ==
    LET we == wrapError(err, Callers(CallersSkip,
                  <<(<<2, 0>>), (<<1, eCallersLine>>)>> \o cs))
    IN  [ret |-> <<>>, panics |-> TRUE, payload |-> we, walks |-> 1]

\* E without its test of err.
E_raises_nil(err, cs) == e(err, <<(<<1, ELine>>)>> \o cs)

E(err, cs) ==
    IF err # Nil THEN e(err, <<(<<1, ELine>>)>> \o cs) ELSE Returns(<<>>)

E1(a, err, cs) ==
    IF err # Nil THEN e(err, <<(<<1, E1Line>>)>> \o cs) ELSE Returns(<<a>>)

E2(a, b, err, cs) ==
    IF err # Nil THEN e(err, <<(<<1, E2Line>>)>> \o cs) ELSE Returns(<<a, b>>)

\* E3 with its results in the wrong order.
E3_reordered(a, b, c, err, cs) ==
    IF err # Nil THEN e(err, <<(<<1, E3Line>>)>> \o cs) ELSE Returns(<<c, b, a>>)

E3(a, b, c, err, cs) ==
    IF err # Nil THEN e(err, <<(<<1, E3Line>>)>> \o cs) ELSE Returns(<<a, b, c>>)

E4(a, b, c, d, err, cs) ==
    IF err # Nil THEN e(err, <<(<<1, E4Line>>)>> \o cs) ELSE Returns(<<a, b, c, d>>)

\* The call E<n>(vals..., err) written by the user.
RaiseCall(vals, err, cs) ==
    CASE Len(vals) = 0 -> E(err, cs)
      [] Len(vals) = 1 -> E1(vals[1], err, cs)
      [] Len(vals) = 2 -> E2(vals[1], vals[2], err, cs)
      [] Len(vals) = 3 -> E3(vals[1], vals[2], vals[3], err, cs)
      [] OTHER -> E4(vals[1], vals[2], vals[3], vals[4], err, cs)

\* ------------------------------------------------------------- handlers
\* What one deferred handler call does: the value it leaves in the error
\* variable of the deferring function, whether the handler itself assigned
\* it, whether the call panics and with what, the calls it made to the
\* function it was given, and how it ends ("return", or "goexit" when the
\* function it called ended the goroutine), and the stack walks made in it.
\* A call records the error variable as the function found and left it.
NoOp(slot) ==
    [slot |-> slot, wrote |-> FALSE, panics |-> FALSE, payload |-> NilAny,
     calls |-> <<>>, term |-> "return", walks |-> 0]

\* The functions the tests and the package documentation pass to HandleF.
\* They close over err; "raise" calls try.E in the callback, at line 7 of
\* the deferring function's file.
HandleFCallbacks == {"ignore", "replace", "raise"}
RecoverCallbacks == {"note", "raise"}
Sinks == {"Print", "Fatal"}

CallbackStack(file, mech, cs) == <<(<<file, 7>>)>> \o mech \o cs

\* A callback whose raise is caught by the handler that called it.
HandleFCallback_contained(cb, out, file, cs) ==
    [out EXCEPT !.calls = Append(@, [fn |-> cb, args |-> <<>>, seen |-> out.slot,
                                        left |-> out.slot, text |-> <<>>])]

HandleFCallback(cb, out, file, cs) ==
    LET err == out.slot
        call == [fn |-> cb, args |-> <<>>, seen |-> err, left |-> err, text |-> <<>>]
        ignored == IF err = EOF THEN Nil ELSE err
        replaced == IF err = EOF THEN ErrUnexpectedEOF ELSE err
    IN  CASE cb = "ignore" ->
               [out EXCEPT !.slot = ignored,
                           !.calls = Append(@, [call EXCEPT !.left = ignored])]
          [] cb = "replace" ->
               [out EXCEPT !.slot = replaced,
                           !.calls = Append(@, [call EXCEPT !.left = replaced])]
          [] OTHER ->
               LET raised == E(ErrUnexpectedEOF, CallbackStack(file,
                                 <<(<<1, 190>>), (<<1, 163>>), (<<1, 187>>)>>, cs))
               IN  [out EXCEPT !.panics = raised.panics,
                               !.payload = raised.payload,
                               !.walks = raised.walks,
                               !.calls = Append(@, call)]

RecoverCallback(cb, out, err, frame, file, cs) ==
    LET call == [fn |-> cb, args |-> <<err, frame>>, seen |-> err, left |-> out.slot,
                 text |-> <<>>]
    IN  IF cb = "raise"
        THEN LET raised == E(ErrUnexpectedEOF, CallbackStack(file,
                               <<(<<1, 175>>), (<<1, 163>>), (<<1, 172>>)>>, cs))
             IN  [out EXCEPT !.panics = raised.panics,
                             !.payload = raised.payload,
                             !.walks = raised.walks,
                             !.calls = Append(@, call)]
        ELSE [out EXCEPT !.calls = Append(@, call)]

\* A sink is a func(...any): log.Print returns, testing.TB.Fatal ends the
\* goroutine with runtime.Goexit.  Both write their operands as fmt.Sprint
\* does: an operand that is an error is written as its Error() text.
\* A sink that always returns.
SinkCall_returns(fn, out, args) ==
    [out EXCEPT !.calls = Append(@, [fn |-> fn, args |-> args, seen |-> Nil,
                                        left |-> out.slot, text |-> <<>>])]

Sprint(args) ==
    IF args = <<>> THEN <<>>
    ELSE CASE args[1].kind = "wrapError" -> wrapErrorError(args[1])
           [] args[1].kind = "string" -> args[1].val
           [] OTHER -> <<>>

SinkCall(fn, out, args) ==
    [out EXCEPT !.calls = Append(@, [fn |-> fn, args |-> args, seen |-> Nil,
                                        left |-> out.slot, text |-> Sprint(args)]),
                !.term = IF fn = "Fatal" THEN "goexit" ELSE "return"]

\* r that treats a nil recover() like an envelope.
r_calls_on_nil(recovered, slot, fnOut) ==
    CASE recovered.kind = "foreign" ->
           [NoOp(slot) EXCEPT !.panics = TRUE, !.payload = recovered]
      [] OTHER -> fnOut

\* r that calls fn and panics again with the envelope.
r_keeps_panicking(recovered, slot, fnOut) ==
    CASE recovered.kind = "nil" -> NoOp(slot)
      [] recovered.kind = "wrapError" ->
           [fnOut EXCEPT !.panics = TRUE, !.payload = recovered, !.walks = 0]
      [] OTHER -> [NoOp(slot) EXCEPT !.panics = TRUE, !.payload = recovered]

\* r whose type switch has no case for the envelope.
r_passes_envelope(recovered, slot, fnOut) ==
    CASE recovered.kind = "nil" -> NoOp(slot)
      [] OTHER -> [NoOp(slot) EXCEPT !.panics = TRUE, !.payload = recovered]

\* r: fnOut is the outcome of fn(ex), used only in the wrapError case.
r(recovered, slot, fnOut) ==
    CASE recovered.kind = "nil" -> NoOp(slot)
      [] recovered.kind = "wrapError" -> fnOut
      [] OTHER -> [NoOp(slot) EXCEPT !.panics = TRUE, !.payload = recovered]

\* Recover that recovers and never calls fn.
Recover_silent(fn, slot, recovered, file, cs) == r(recovered, slot, NoOp(slot))

Recover(fn, slot, recovered, file, cs) ==
    r(recovered, slot,
      LET frame == CallersFrames(recovered.pc)
      IN  RecoverCallback(fn, NoOp(slot), recovered.error, frame, file, cs))

\* Handle that recovers and forgets the assignment.
Handle_unassigned(slot, recovered) == r(recovered, slot, NoOp(slot))

Handle(slot, recovered) ==
    r(recovered, slot, [NoOp(slot) EXCEPT !.slot = recovered.error, !.wrote = TRUE])

\* HandleF whose guard tests the error variable as it was before the
\* assignment.
HandleF_guards_slot(slot, fn, recovered, file, cs) ==
    r(recovered, slot,
      LET assigned == [NoOp(slot) EXCEPT !.slot = recovered.error, !.wrote = TRUE]
      IN  IF slot # Nil
          THEN HandleFCallback(fn, assigned, file, cs)
          ELSE assigned)

\* HandleF that calls fn before the assignment.
HandleF_calls_first(slot, fn, recovered, file, cs) ==
    r(recovered, slot,
      LET called == IF recovered.error # Nil
                    THEN HandleFCallback(fn, NoOp(slot), file, cs)
                    ELSE NoOp(slot)
      IN  [called EXCEPT !.slot = recovered.error, !.wrote = TRUE])

HandleF(slot, fn, recovered, file, cs) ==
    r(recovered, slot,
      LET assigned == [NoOp(slot) EXCEPT !.slot = recovered.error, !.wrote = TRUE]
      IN  IF recovered.error # Nil
          THEN HandleFCallback(fn, assigned, file, cs)
          ELSE assigned)

\* f that formats the envelope and gives the sink the text.
f_formats(fn, w, slot) ==
    SinkCall(fn, NoOp(slot),
             <<[kind |-> "string", error |-> Nil, pc |-> NoPC, val |-> wrapErrorError(w)]>>)

f(fn, w, slot) == SinkCall(fn, NoOp(slot), <<w>>)

\* F that unwraps the envelope and gives the sink the cause.
F_passes_cause(fn, slot, recovered) ==
    r(recovered, slot,
      f(fn, [kind |-> "error", error |-> recovered.error, pc |-> NoPC, val |-> Nil], slot))

F(fn, slot, recovered) == r(recovered, slot, f(fn, recovered, slot))

\* The deferred handlers a function can install, and what the function
\* value given to each may do when it is called.
Handlers == {"Handle", "HandleF", "Recover", "F"}

FnsOf(form) ==
    CASE form = "HandleF" -> HandleFCallbacks
      [] form = "Recover" -> RecoverCallbacks
      [] form = "F" -> Sinks
      [] OTHER -> {"none"}

\* The deferred call of form h, given fn, in a function whose error variable
\* holds slot.
RunHandler(h, fn, slot, recovered, file, cs) ==
    CASE h = "Handle" -> Handle(slot, recovered)
      [] h = "HandleF" -> HandleF(slot, fn, recovered, file, cs)
      [] h = "Recover" -> Recover(fn, slot, recovered, file, cs)
      [] OTHER -> F(fn, slot, recovered)

\* ---------------------------------------------------------------- state
VARIABLES
    stack,      \* the user frames, outermost first
    panicking,  \* the goroutine is panicking
    payload,    \* the value it is panicking with
    status,     \* "running", "goexit", "done", "crashed" or "exited"
    result,     \* what the outermost function left: its error, or the payload
    panicnil,   \* GODEBUG panicnil=1 (the only behaviour before go1.21)
    steps,      \* statements, other than return, executed so far
    last,       \* the step just taken: its inputs and what the code computed
    inflight,   \* the latest raise, and who has observed it since
    tasks       \* the goroutines of a program that runs several, by number

vars ==
    <<stack, panicking, payload, status, result, panicnil, steps, last, inflight, tasks>>

NewFrame(file) ==
    [file |-> file, line |-> 0, defers |-> <<>>, err |-> Nil, exiting |-> FALSE]

\* The record of a raise: the error and the call site given to the E
\* function, the deferred call that encloses it most closely, and since
\* then the handlers that received the envelope (their number, the last
\* one's place and form), the assignments they made and the error the
\* receiving call left in the error variable and how the function that call
\* was given ended.  It is active until the
\* function whose handler received it has returned.  For a panic that is
\* not a raise, fpanic is set and foreign is its value.
NoRaise ==
    [active |-> FALSE, cause |-> Nil, site |-> NoPC, observers |-> 0,
     writes |-> 0, target |-> NoPC, at |-> NoPC, by |-> "none", left |-> Nil,
     fpanic |-> FALSE, foreign |-> NilAny, term |-> "return"]

Last0 ==
    [op |-> "init", vals |-> <<>>, err |-> Nil, site |-> NoPC,
     eout |-> Returns(<<>>), h |-> "none", fn |-> "none", recovered |-> NilAny,
     hout |-> NoOp(Nil), slot0 |-> Nil, depth |-> 0, wasPanicking |-> FALSE,
     closes |-> FALSE, raise |-> NoRaise, before |-> <<>>, text |-> <<>>,
     task |-> 0]

\* A program of two goroutines, each started in a function of its own file.
\* A goroutine has its own stack and its own panic.
Tasks == {1, 2}
TaskFile == <<3, 4>>
TaskHandlers == {"Handle", "Recover"}

NewTask(file) ==
    [stack |-> <<NewFrame(file)>>, panicking |-> FALSE, payload |-> NilAny,
     status |-> "running", steps |-> 0, inflight |-> NoRaise]

Tasks0 == [t \in Tasks |-> NewTask(TaskFile[t])]

top == Len(stack)

\* The logical call stack of the user frames, innermost first.  A frame's
\* line is where the function is suspended: in a call of another user
\* function, or at the statement that panicked.
UserStack(stk) ==
    [i \in 1..Len(stk) |-> <<stk[Len(stk) + 1 - i].file, stk[Len(stk) + 1 - i].line>>]

\* The same while the top function executes the statement at the given line.
StackAt(stk, line) == UserStack([stk EXCEPT ![Len(stk)].line = line])

\* The deferred call a panic in stk reaches first: (frame, position).
WithDefers(stk) == {i \in 1..Len(stk) : stk[i].defers # <<>>}

Innermost(stk) ==
    IF WithDefers(stk) = {} THEN NoPC
    ELSE LET i == CHOOSE k \in WithDefers(stk) : \A j \in WithDefers(stk) : j <= k
         IN  <<i, Len(stk[i].defers)>>

NewRaise(err, site, stk) ==
    [NoRaise EXCEPT !.active = TRUE, !.cause = err, !.site = site,
                    !.target = Innermost(stk)]

\* The built-in recover() called by a deferred handler.
recover == IF status = "running" /\ panicking THEN payload ELSE NilAny

\* The built-in panic(v): panic(nil) panics with a *runtime.PanicNilError
\* unless panicnil=1.
PanicValue(v) ==
    IF v # Nil THEN Foreign(v)
    ELSE IF panicnil THEN NilAny ELSE Foreign("PanicNilError")

Init ==
    /\ \E file \in UserFiles : stack = <<NewFrame(file)>>
    /\ panicking = FALSE
    /\ payload = NilAny
    /\ status = "running"
    /\ result = [err |-> Nil, payload |-> NilAny]
    /\ panicnil \in BOOLEAN
    /\ steps = 0
    /\ last = Last0
    /\ inflight = NoRaise
    /\ tasks = Tasks0

\* The top function is executing its body.
InBody ==
    /\ status = "running"
    /\ ~panicking
    /\ stack # <<>>
    /\ ~stack[top].exiting

ArgTuples == {<<>>, <<1>>, <<2>>, <<1, 2>>, <<1, 2, 3>>, <<1, 2, 3, 4>>}

\* defer try.Handle(&err), defer try.HandleF(&err, fn), ...
Defer(h) ==
    /\ InBody
    /\ steps < MaxSteps
    /\ Len(stack[top].defers) < MaxDefers
    /\ stack' = [stack EXCEPT ![top].defers = Append(@, h)]
    /\ steps' = steps + 1
    /\ last' = [Last0 EXCEPT !.op = "defer", !.h = h, !.depth = top,
                             !.slot0 = stack[top].err, !.before = stack]
    /\ UNCHANGED <<panicking, payload, status, result, panicnil, tasks, inflight>>

\* A call, at the given line, of another user function of the same file.
Call(line) ==
    /\ InBody
    /\ steps < MaxSteps
    /\ top < MaxDepth
    /\ stack' = Append([stack EXCEPT ![top].line = line], NewFrame(stack[top].file))
    /\ steps' = steps + 1
    /\ last' = [Last0 EXCEPT !.op = "call", !.site = <<stack[top].file, line>>,
                             !.depth = top, !.slot0 = stack[top].err,
                             !.before = stack]
    /\ UNCHANGED <<panicking, payload, status, result, panicnil, tasks, inflight>>

\* The statement try.E<n>(vals..., err) at the given line of the top function.
CallE(vals, err, line) ==
    /\ InBody
    /\ steps < MaxSteps
    /\ LET out == RaiseCall(vals, err, StackAt(stack, line))
           stk == IF out.panics THEN [stack EXCEPT ![top].line = line] ELSE stack
       IN  /\ stack' = stk
           /\ panicking' = out.panics
           /\ payload' = out.payload
           /\ inflight' = IF out.panics
                          THEN NewRaise(err, <<stack[top].file, line>>, stk)
                          ELSE inflight
           /\ last' = [Last0 EXCEPT !.op = "E", !.vals = vals, !.err = err,
                                    !.site = <<stack[top].file, line>>,
                                    !.eout = out, !.depth = top,
                                    !.slot0 = stack[top].err, !.before = stack]
    /\ steps' = steps + 1
    /\ UNCHANGED <<status, result, panicnil, tasks>>

\* return v: the result is assigned, then the deferred calls run.
Return(v) ==
    /\ InBody
    /\ stack' = [stack EXCEPT ![top].err = v, ![top].exiting = TRUE]
    /\ steps' = steps
    /\ last' = [Last0 EXCEPT !.op = "return", !.err = v, !.depth = top,
                             !.slot0 = stack[top].err, !.before = stack]
    /\ UNCHANGED <<panicking, payload, status, result, panicnil, tasks, inflight>>

\* A panic that is not the package's: panic(v) or a run-time fault.
ForeignPanic(v) ==
    /\ InBody
    /\ steps < MaxSteps
    /\ stack' = stack
    /\ panicking' = TRUE
    /\ payload' = PanicValue(v)
    /\ inflight' = [NoRaise EXCEPT !.fpanic = TRUE, !.foreign = PanicValue(v)]
    /\ steps' = steps + 1
    /\ last' = [Last0 EXCEPT !.op = "panic", !.recovered = PanicValue(v), !.depth = top,
                             !.slot0 = stack[top].err, !.before = stack]
    /\ UNCHANGED <<status, result, panicnil, tasks>>

\* The most recently deferred handler of the top frame runs: on the way out
\* of a returning function, during a panic, or during runtime.Goexit.
RunDeferred(fn) ==
    /\ stack # <<>>
    /\ stack[top].defers # <<>>
    /\ fn \in FnsOf(stack[top].defers[Len(stack[top].defers)])
    /\ \/ status = "running" /\ (panicking \/ stack[top].exiting)
       \/ status = "goexit"
    /\ LET fr == stack[top]
           n == Len(fr.defers)
           h == fr.defers[n]
           recovered == recover
           popped == [stack EXCEPT ![top].defers = SubSeq(@, 1, n - 1)]
           out == RunHandler(h, fn, fr.err, recovered, fr.file, UserStack(stack))
           stk == [popped EXCEPT ![top].err = out.slot,
                                 ![top].exiting = IF out.panics THEN FALSE
                                                  ELSE IF panicking THEN TRUE ELSE @]
       IN  /\ stack' = stk
           /\ panicking' = out.panics
           /\ payload' = IF out.panics THEN out.payload ELSE NilAny
           /\ status' = IF out.term = "goexit" /\ ~out.panics THEN "goexit" ELSE status
           /\ inflight' =
                IF out.panics /\ out.walks > 0
                THEN NewRaise(ErrUnexpectedEOF, <<fr.file, 7>>, stk)
                ELSE IF recovered.kind = "wrapError"
                THEN [inflight EXCEPT !.observers = @ + 1,
                                      !.writes = @ + (IF out.wrote THEN 1 ELSE 0),
                                      !.at = <<top, n>>, !.by = h,
                                      !.left = out.slot, !.term = out.term]
                ELSE inflight
           /\ last' = [Last0 EXCEPT !.op = "handler", !.h = h, !.fn = fn,
                                    !.recovered = recovered, !.hout = out,
                                    !.slot0 = fr.err, !.depth = top,
                                    !.wasPanicking = panicking,
                                    !.raise = inflight, !.before = stack]
    /\ UNCHANGED <<result, panicnil, tasks, steps>>

\* The top frame has no deferred call left: a returning function hands its
\* result to its caller, a panicking one is unwound.  Leaving the outermost
\* function ends the run.
PopFrame ==
    /\ stack # <<>>
    /\ stack[top].defers = <<>>
    /\ \/ status = "running" /\ (panicking \/ stack[top].exiting)
       \/ status = "goexit"
    /\ stack' = SubSeq(stack, 1, top - 1)
    /\ status' = IF top > 1 THEN status
                 ELSE IF status = "goexit" THEN "exited"
                 ELSE IF panicking THEN "crashed" ELSE "done"
    /\ result' = IF top > 1 THEN result
                 ELSE [err |-> IF status = "running" /\ ~panicking
                               THEN stack[top].err ELSE Nil,
                       payload |-> payload]
    /\ LET closes == inflight.active /\ inflight.observers > 0 /\ inflight.at[1] = top
       IN  /\ inflight' = IF closes THEN [inflight EXCEPT !.active = FALSE] ELSE inflight
           /\ last' = [Last0 EXCEPT !.op = "pop", !.err = stack[top].err,
                                    !.depth = top, !.slot0 = stack[top].err,
                                    !.wasPanicking = panicking, !.closes = closes,
                                    !.raise = inflight, !.before = stack]
    /\ UNCHANGED <<panicking, payload, panicnil, tasks, steps>>

\* A call of w.Error() on an envelope of the given origin and cause, as the
\* formatting of a sink or a callback makes it.
Format(file, line, err) ==
    /\ last.op # "Error"
    /\ last' = [Last0 EXCEPT !.op = "Error",
                             !.recovered = wrapError(err, <<file, line>>),
                             !.text = wrapErrorError(wrapError(err, <<file, line>>)),
                             !.before = stack]
    /\ UNCHANGED <<stack, panicking, payload, status, result, panicnil, tasks, steps,
                   inflight>>

NextFormat ==
    \E file \in 1..Len(FileTable), line \in 0..MaxLine, err \in Errors :
       Format(file, line, err)

SpecFormat == Init /\ [][NextFormat]_vars

\* ------------------------------------------------------- two goroutines
\* A panic that leaves the function a goroutine was started in ends the
\* whole program.
ProcessAlive == \A t \in Tasks : tasks[t].status # "crashed"

TaskInBody(t) ==
    /\ ProcessAlive
    /\ tasks[t].status = "running"
    /\ tasks[t].stack # <<>>
    /\ ~tasks[t].panicking
    /\ ~tasks[t].stack[1].exiting

\* The other variables while the program of two goroutines runs.
OneGoroutineIdle ==
    UNCHANGED <<stack, panicking, payload, status, result, panicnil, steps, inflight>>

\* recover() in a goroutine that takes the panic of any goroutine.
recoverIn_shared(t) ==
    IF \E u \in Tasks : tasks[u].status = "running" /\ tasks[u].panicking
    THEN tasks[CHOOSE u \in Tasks : tasks[u].status = "running" /\ tasks[u].panicking].payload
    ELSE NilAny

\* recover() called by a deferred handler of goroutine t.
recoverIn(t) ==
    IF tasks[t].status = "running" /\ tasks[t].panicking THEN tasks[t].payload ELSE NilAny

TaskDefer(t, h) ==
    /\ TaskInBody(t)
    /\ tasks[t].steps < MaxTaskSteps
    /\ Len(tasks[t].stack[1].defers) < MaxDefers
    /\ tasks' = [tasks EXCEPT ![t].stack[1].defers = Append(@, h),
                              ![t].steps = @ + 1]
    /\ last' = [Last0 EXCEPT !.op = "defer", !.h = h, !.task = t, !.before = tasks]
    /\ OneGoroutineIdle

TaskCallE(t, err, line) ==
    /\ TaskInBody(t)
    /\ tasks[t].steps < MaxTaskSteps
    /\ LET g == tasks[t]
           out == E(err, StackAt(g.stack, line))
           stk == IF out.panics THEN [g.stack EXCEPT ![1].line = line] ELSE g.stack
       IN  /\ tasks' = [tasks EXCEPT
                          ![t].stack = stk,
                          ![t].panicking = out.panics,
                          ![t].payload = out.payload,
                          ![t].steps = @ + 1,
                          ![t].inflight = IF out.panics
                                          THEN NewRaise(err, <<g.stack[1].file, line>>, stk)
                                          ELSE @]
           /\ last' = [Last0 EXCEPT !.op = "E", !.err = err, !.task = t,
                                    !.site = <<g.stack[1].file, line>>,
                                    !.eout = out, !.before = tasks]
    /\ OneGoroutineIdle

TaskReturn(t, v) ==
    /\ TaskInBody(t)
    /\ tasks' = [tasks EXCEPT ![t].stack[1].err = v, ![t].stack[1].exiting = TRUE]
    /\ last' = [Last0 EXCEPT !.op = "return", !.err = v, !.task = t, !.before = tasks]
    /\ OneGoroutineIdle

TaskRunDeferred(t, fn) ==
    /\ ProcessAlive
    /\ tasks[t].status = "running"
    /\ tasks[t].stack # <<>>
    /\ tasks[t].stack[1].defers # <<>>
    /\ tasks[t].panicking \/ tasks[t].stack[1].exiting
    /\ fn \in FnsOf(tasks[t].stack[1].defers[Len(tasks[t].stack[1].defers)])
    /\ LET g == tasks[t]
           fr == g.stack[1]
           n == Len(fr.defers)
           h == fr.defers[n]
           recovered == recoverIn(t)
           popped == [g.stack EXCEPT ![1].defers = SubSeq(@, 1, n - 1)]
           out == RunHandler(h, fn, fr.err, recovered, fr.file, UserStack(g.stack))
           stk == [popped EXCEPT ![1].err = out.slot,
                                 ![1].exiting = IF out.panics THEN FALSE
                                                ELSE IF g.panicking THEN TRUE ELSE @]
       IN  /\ tasks' = [tasks EXCEPT
                          ![t].stack = stk,
                          ![t].panicking = out.panics,
                          ![t].payload = IF out.panics THEN out.payload ELSE NilAny,
                          ![t].status = IF out.term = "goexit" /\ ~out.panics
                                        THEN "goexit" ELSE @,
                          ![t].inflight =
                             IF out.panics /\ out.walks > 0
                             THEN NewRaise(ErrUnexpectedEOF, <<fr.file, 7>>, stk)
                             ELSE IF recovered.kind = "wrapError"
                             THEN [@ EXCEPT !.observers = @ + 1,
                                            !.writes = @ + (IF out.wrote THEN 1 ELSE 0),
                                            !.at = <<1, n>>, !.by = h,
                                            !.left = out.slot, !.term = out.term]
                             ELSE @]
           /\ last' = [Last0 EXCEPT !.op = "handler", !.h = h, !.fn = fn, !.task = t,
                                    !.recovered = recovered, !.hout = out,
                                    !.slot0 = fr.err, !.wasPanicking = g.panicking,
                                    !.raise = g.inflight, !.before = tasks]
    /\ OneGoroutineIdle

\* The function the goroutine was started in has no deferred call left: the
\* goroutine ends, and a panicking one takes the program with it.
TaskExit(t) ==
    /\ ProcessAlive
    /\ tasks[t].status \in {"running", "goexit"}
    /\ tasks[t].stack # <<>>
    /\ tasks[t].stack[1].defers = <<>> \/ tasks[t].status = "goexit"
    /\ tasks[t].panicking \/ tasks[t].stack[1].exiting \/ tasks[t].status = "goexit"
    /\ tasks' = [tasks EXCEPT
                   ![t].status = IF @ = "goexit" THEN "exited"
                                 ELSE IF tasks[t].panicking THEN "crashed" ELSE "done"]
    /\ last' = [Last0 EXCEPT !.op = "pop", !.task = t, !.err = tasks[t].stack[1].err,
                             !.wasPanicking = tasks[t].panicking, !.before = tasks]
    /\ OneGoroutineIdle

NextTasks ==
    \/ \E t \in Tasks, h \in TaskHandlers : TaskDefer(t, h)
    \/ \E t \in Tasks, err \in Errors \cup {Nil} : TaskCallE(t, err, 10)
    \/ \E t \in Tasks : TaskReturn(t, Nil)
    \/ \E t \in Tasks,
          fn \in HandleFCallbacks \cup RecoverCallbacks \cup Sinks \cup {"none"} :
          TaskRunDeferred(t, fn)
    \/ \E t \in Tasks : TaskExit(t)

InitTasks == Init /\ stack[1].file = 3 /\ ~panicnil

SpecTasks == InitTasks /\ [][NextTasks]_vars

Next ==
    \/ \E h \in Handlers : Defer(h)
    \/ \E line \in Lines : Call(line)
    \/ \E vals \in ArgTuples, err \in Errors \cup {Nil}, line \in Lines :
          CallE(vals, err, line)
    \/ \E v \in Errors \cup {Nil} : Return(v)
    \/ \E v \in ForeignValues \cup {Nil} : ForeignPanic(v)
    \/ \E fn \in HandleFCallbacks \cup RecoverCallbacks \cup Sinks \cup {"none"} :
          RunDeferred(fn)
    \/ PopFrame

Spec == Init /\ [][Next]_vars

\* The same steps with one choice of line, arguments and returned value
\* each, for the properties of unwinding that these do not bear on.
NextUnwind ==
    \/ \E h \in Handlers : Defer(h)
    \/ Call(4)
    \/ \E err \in Errors \cup {Nil} : CallE(<<>>, err, 10)
    \/ Return(Nil)
    \/ ForeignPanic("boom")
    \/ \E fn \in HandleFCallbacks \cup RecoverCallbacks \cup Sinks \cup {"none"} : RunDeferred(fn)
    \/ PopFrame

\* A goroutine that can take a step takes one: a panicking goroutine runs
\* its deferred calls and leaves its functions without waiting for anything.
FairSpec == Init /\ [][NextUnwind]_vars /\ WF_vars(NextUnwind)

\* ---------------------------------------------------------------- claims
Body == {"E", "defer", "call", "return", "panic"}
Unwinding == {"handler", "pop"}

\* C1: a raise function called with a nil error returns exactly the values
\* it was given, for every arity, starts no panic, walks no stack and changes
\* nothing else.
C1_NilErrorReturnsValues ==
    [][(last'.op = "E" /\ last'.err = Nil) =>
          /\ last'.eout.ret = last'.vals
          /\ ~last'.eout.panics
          /\ last'.eout.walks = 0
          /\ ~panicking'
          /\ <<stack, panicking, payload, status, result, panicnil, inflight>>'
               = <<stack, panicking, payload, status, result, panicnil, inflight>>]_vars

C1_Witness ==
    /\ last.op = "E" /\ last.err = Nil
    /\ last.vals = <<1, 2, 3>> /\ last.eout.ret = <<1, 2, 3>>
    /\ stack[top].defers # <<>>

\* C2: a raise function called with a non-nil error does not return: the
\* goroutine panics with an envelope holding that error and the call site;
\* while it unwinds and once a handler has recovered it, the function runs
\* no further statement, only deferred calls and returns; so the error a
\* handler receives is that of the first raise function call that failed.
C2_RaiseNeverReturns ==
    [][/\ (last'.op = "E" /\ last'.err # Nil) =>
             /\ panicking' /\ status' = "running"
             /\ payload' = wrapError(last'.err, last'.site)
             /\ last'.eout.ret = <<>>
       /\ (status = "running" /\ panicking) => last'.op \in Unwinding
       /\ (last'.op = "handler" /\ last'.recovered.kind = "wrapError"
             /\ ~panicking' /\ status' = "running") => stack'[Len(stack')].exiting
       /\ (status = "running" /\ stack # <<>> /\ stack[top].exiting) =>
             last'.op \in Unwinding
       /\ (last'.op = "handler" /\ last'.recovered.kind = "wrapError") =>
             last'.recovered.error = inflight.cause]_vars

C2_Witness ==
    /\ last.op = "handler" /\ last.h = "Handle" /\ last.recovered.kind = "wrapError"
    /\ last.depth = 1 /\ steps = 3 /\ stack[top].err = EOF /\ stack[top].exiting

\* C3: a function that defers Handle(&err) and raises c returns normally with
\* err = c, the error itself.
C3_HandleRoundTrip ==
    /\ (last.op = "handler" /\ last.h = "Handle" /\ last.recovered.kind = "wrapError") =>
          /\ inflight.cause \in Errors
          /\ stack[top].err = inflight.cause
          /\ ~panicking /\ status = "running" /\ stack[top].exiting
    /\ (last.op = "pop" /\ last.closes /\ inflight.by = "Handle") =>
          /\ ~last.wasPanicking /\ status \in {"running", "done"}
          /\ last.err = inflight.cause
          /\ (status = "done" => result.err = inflight.cause)

C3_Witness ==
    /\ last.op = "pop" /\ last.closes /\ inflight.by = "Handle"
    /\ status = "done" /\ result.err = ErrUnexpectedEOF

\* The handler call just made received an envelope.
Received == last.op = "handler" /\ last.recovered.kind = "wrapError"

\* The place of the handler call just made: (frame, position).
Place == <<last.depth, Len(last.before[last.depth].defers)>>

\* C4: a panic that is not a raise passes through every handler: the handler
\* panics again with the same value, assigns nothing and calls nothing, and
\* the value that ends the goroutine is the value of the panic.
C4_ForeignPanicPassesThrough ==
    inflight.fpanic =>
       /\ panicking /\ payload = inflight.foreign
       /\ status \in {"running", "crashed"}
       /\ last.op \in {"panic"} \cup Unwinding
       /\ (last.op = "handler" =>
             /\ last.hout.calls = <<>> /\ ~last.hout.wrote
             /\ stack[top].err = last.slot0)
       /\ (stack = <<>> => status = "crashed" /\ result.payload = inflight.foreign)

\* The same for the values recover() returns as non-nil.
ForeignNonNilPassesThrough ==
    (inflight.fpanic /\ inflight.foreign # NilAny) =>
       /\ panicking /\ payload = inflight.foreign
       /\ status \in {"running", "crashed"}
       /\ last.op \in {"panic"} \cup Unwinding
       /\ (last.op = "handler" =>
             /\ last.hout.calls = <<>> /\ ~last.hout.wrote
             /\ stack[top].err = last.slot0)
       /\ (stack = <<>> => status = "crashed" /\ result.payload = inflight.foreign)

ForeignNonNil_Witness ==
    /\ inflight.fpanic /\ inflight.foreign = Foreign("boom")
    /\ status = "crashed" /\ Len(last.before) = 1 /\ steps = MaxSteps

\* C5: when the function is not panicking, a handler call of any of the four
\* forms assigns nothing, calls nothing and leaves the error variable as the
\* function's return left it.
C5_NormalExitIsNoOp ==
    (last.op = "handler" /\ ~last.wasPanicking) =>
       /\ last.hout = NoOp(last.slot0)
       /\ stack[top].err = last.slot0
       /\ ~panicking
       /\ inflight = last.raise

C5_Witness ==
    /\ last.op = "handler" /\ ~last.wasPanicking /\ status = "running"
    /\ last.h = "HandleF" /\ last.slot0 = EOF /\ last.before[last.depth].exiting
    /\ last.raise = NoRaise

\* C6: a raise is received by at most one handler call, the innermost
\* enclosing one; that call ends the panic, so every other handler call sees
\* no panic; the handlers assign an error variable at most once per raise,
\* that of the innermost function; and a run that ends normally after a
\* raise had it received exactly once.
C6_SingleConsumption ==
    /\ inflight.observers <= 1
    /\ inflight.writes <= 1
    /\ (inflight.observers = 1 => inflight.at = inflight.target)
    /\ Received =>
          /\ Place = last.raise.target
          /\ last.raise.observers = 0
          /\ (last.hout.walks = 0 => ~panicking)
    /\ (last.op = "handler" /\ last.raise.observers = 1) => last.recovered = NilAny
    /\ (last.op = "handler" /\ last.hout.wrote) => Received /\ last.raise.writes = 0
    /\ (status \in {"done", "exited"} /\ inflight.cause # Nil) => inflight.observers = 1
    /\ (status = "crashed" /\ payload.kind = "wrapError") =>
          inflight.observers = 0 /\ inflight.target = NoPC

C6_Witness ==
    /\ last.op = "handler" /\ last.depth = 1 /\ last.h = "Handle"
    /\ last.raise.observers = 1 /\ last.raise.at[1] = 2 /\ last.raise.by = "Handle"
    /\ last.raise.writes = 1 /\ last.recovered = NilAny
    /\ stack[top].err = Nil

\* C7: a raise with no enclosing handler is never recovered: the panic leaves
\* every function, none of them returns, and the goroutine ends with a
\* payload that unwraps to the error raised.
C7_MissingRecoveryIsFatal ==
    (inflight.active /\ inflight.target = NoPC) =>
       /\ panicking /\ payload.kind = "wrapError"
       /\ Unwrap(payload) = inflight.cause
       /\ inflight.observers = 0
       /\ status \in {"running", "crashed"}
       /\ (last.op = "pop" => last.wasPanicking)
       /\ (stack = <<>> =>
             /\ status = "crashed"
             /\ Unwrap(result.payload) = inflight.cause
             /\ result.err = Nil)

C7_Witness ==
    /\ inflight.active /\ inflight.target = NoPC /\ status = "crashed"
    /\ Unwrap(result.payload) = EOF /\ last.op = "pop" /\ last.before[1].line = 10

\* C8: HandleF assigns the raised error and then calls fn, once: fn finds
\* the raised error in the error variable, and the function returns what fn
\* left there, another error or nil.
C8_HandleFCallbackComposition ==
    /\ (Received /\ last.h = "HandleF") =>
          /\ last.hout.wrote
          /\ Len(last.hout.calls) = 1
          /\ last.hout.calls[1].seen = last.raise.cause
          /\ stack[top].err = last.hout.calls[1].left
          /\ (last.fn = "replace" /\ last.raise.cause = EOF =>
                stack[top].err = ErrUnexpectedEOF)
          /\ (last.fn = "ignore" /\ last.raise.cause = EOF => stack[top].err = Nil)
          /\ (last.fn \in {"replace", "ignore"} /\ last.raise.cause # EOF =>
                stack[top].err = last.raise.cause)
    /\ (last.op = "pop" /\ last.closes /\ inflight.by = "HandleF") =>
          /\ ~last.wasPanicking
          /\ last.err = inflight.left
          /\ (status = "done" => result.err = inflight.left)

C8_Witness ==
    /\ last.op = "pop" /\ last.closes /\ inflight.by = "HandleF"
    /\ inflight.cause = EOF /\ status = "done" /\ result.err = ErrUnexpectedEOF

C8_WitnessIgnored ==
    /\ last.op = "pop" /\ last.closes /\ inflight.by = "HandleF"
    /\ inflight.cause = EOF /\ status = "done" /\ result.err = Nil

\* C9: the origin in the envelope is the call site of the E function, for
\* every arity and at every depth of user calls, never a line of the
\* package; it stays the same while the panic is in flight, and Recover
\* hands the frame of that call site to its callback.
C9_OriginIsCallSite ==
    /\ (last.op = "E" /\ last.err # Nil) =>
          /\ payload.pc = last.site
          /\ last.site = <<stack[top].file, stack[top].line>>
    /\ (panicking /\ payload.kind = "wrapError") =>
          /\ payload.pc = inflight.site
          /\ payload.pc[1] \in UserFiles
          /\ CallersFrames(payload.pc).File # TryGo
    /\ (Received /\ last.h = "Recover") =>
          last.hout.calls[1].args[2] =
             [File |-> FileTable[last.raise.site[1]], Line |-> last.raise.site[2]]

C9_Witness ==
    /\ Received /\ last.h = "Recover" /\ last.depth = 1
    /\ last.raise.target = <<1, 1>> /\ last.before[1].line = 4
    /\ last.hout.calls[1].args[2] = [File |-> YGo, Line |-> 10]

\* C10: Recover, when it receives a raise, calls fn once with the raised
\* error and the frame of the raise, assigns no error variable and ends the
\* panic: when fn returns, the function returns normally.
C10_RecoverCallsFnOnce ==
    /\ (Received /\ last.h = "Recover") =>
          /\ Len(last.hout.calls) = 1
          /\ last.hout.calls[1].args =
                <<last.raise.cause, CallersFrames(last.raise.site)>>
          /\ ~last.hout.wrote
          /\ stack[top].err = last.slot0
          /\ (last.fn = "note" =>
                ~panicking /\ status = "running" /\ stack[top].exiting)
    /\ (last.op = "pop" /\ last.closes /\ inflight.by = "Recover") =>
          /\ ~last.wasPanicking
          /\ inflight.writes = 0
          /\ status \in {"running", "done"}

C10_Witness ==
    /\ last.op = "pop" /\ last.closes /\ inflight.by = "Recover"
    /\ status = "done" /\ inflight.cause = EOF /\ result.err = Nil

\* C11: the diagnostic of an envelope is <file>:<line>: <cause>, where <file>
\* is what follows the last slash of the origin's file (the whole name when
\* it has none), <line> is the line in decimal and <cause> is the text of
\* the error; it is a function of origin and cause, and making it changes
\* nothing else.
IsLastSegment(seg, file) ==
    \E k \in 0..Len(file) :
       /\ seg = SubSeq(file, k + 1, Len(file))
       /\ \A i \in 1..Len(seg) : seg[i] # "/"
       /\ k = 0 \/ file[k] = "/"

DigitValue(c) == CHOOSE d \in 0..9 : DigitChars[d + 1] = c

RECURSIVE DecimalValue(_)
DecimalValue(ds) ==
    IF ds = <<>> THEN 0
    ELSE 10 * DecimalValue(SubSeq(ds, 1, Len(ds) - 1)) + DigitValue(ds[Len(ds)])

IsDecimal(ds, n) ==
    /\ ds # <<>>
    /\ \A i \in 1..Len(ds) : \E d \in 1..10 : DigitChars[d] = ds[i]
    /\ Len(ds) > 1 => ds[1] # "0"
    /\ DecimalValue(ds) = n

IsDiagnostic(t, file, line, err) ==
    \E i \in 1..Len(t), j \in 1..Len(t) :
       /\ i < j /\ j < Len(t)
       /\ t[i] = ":" /\ t[j] = ":" /\ t[j + 1] = " "
       /\ IsLastSegment(SubSeq(t, 1, i - 1), file)
       /\ IsDecimal(SubSeq(t, i + 1, j - 1), line)
       /\ SubSeq(t, j + 2, Len(t)) = ErrorText(err)

C11_WitnessNoSlash ==
    /\ last.op = "Error" /\ last.recovered = wrapError(EOF, <<3, 4>>)
    /\ last.text = <<"x", ".", "g", "o", ":", "4", ":", " ", "E", "O", "F">>

\* C12: F, when it receives a raise, calls the sink once with one argument;
\* with no raise it never calls the sink.  As the claim has it, the argument
\* is the formatted string itself.
IsDiagnosticOfRaise(t) ==
    IsDiagnostic(t, FileTable[last.raise.site[1]], last.raise.site[2], last.raise.cause)

C12_WitnessNoRaise ==
    /\ last.op = "handler" /\ last.h = "F" /\ last.recovered.kind = "nil"
    /\ ~last.wasPanicking /\ last.hout.calls = <<>>

\* C13: after F has received a raise, the function that deferred it does not
\* return normally to its caller, whatever the sink.
C13_FNeverReturns ==
    (last.op = "pop" /\ last.closes /\ inflight.by = "F") =>
       status \in {"goexit", "exited"}

\* C13, amended: F ends the panic and then does what the sink does.  When
\* the sink ends the goroutine (testing.TB.Fatal) the function never returns
\* to its caller; when the sink returns (log.Print) the function returns
\* normally, its error variable as it was.
C13_FReturnsWhenSinkReturns ==
    /\ (Received /\ last.h = "F") =>
          /\ ~panicking
          /\ stack[top].err = last.slot0
          /\ (last.fn = "Fatal" => status = "goexit")
          /\ (last.fn = "Print" => status = "running" /\ stack[top].exiting)
    /\ (last.op = "pop" /\ last.closes /\ inflight.by = "F") =>
          /\ ~last.wasPanicking
          /\ inflight.writes = 0
          /\ IF inflight.term = "goexit"
             THEN status \in {"goexit", "exited"}
             ELSE status \in {"running", "done"}
    /\ status = "exited" => result.err = Nil

C13_Witness ==
    /\ last.op = "pop" /\ last.closes /\ inflight.by = "F"
    /\ inflight.term = "return" /\ status = "running" /\ Len(stack) = 1
    /\ inflight.cause = EOF

C13_WitnessFatal ==
    /\ last.op = "pop" /\ last.closes /\ inflight.by = "F"
    /\ inflight.term = "goexit" /\ status = "exited"

\* C14: the envelope is only ever the payload of a panic in flight: no
\* function given to a handler receives the envelope itself, and nothing
\* holds it once the panic is over.
HandsOutEnvelope ==
    /\ last.op = "handler"
    /\ last.h = "F"
    /\ \E i \in 1..Len(last.hout.calls) :
          \E k \in 1..Len(last.hout.calls[i].args) :
             last.hout.calls[i].args[k].kind = "wrapError"

C14_EnvelopeOnlyInFlight ==
    /\ payload.kind = "wrapError" => panicking
    /\ ~HandsOutEnvelope

\* C14, amended: the envelope is made by a raise and is the payload of its
\* panic while that is in flight; Handle, HandleF and Recover give out only
\* the cause and the frame of the origin, but F gives its sink the envelope
\* itself, after having ended the panic.
C14_EnvelopeOnlyToSink ==
    /\ payload.kind = "wrapError" =>
          /\ panicking
          /\ payload = wrapError(inflight.cause, inflight.site)
    /\ (Received /\ last.h \in {"Handle", "HandleF"}) =>
          /\ last.hout.wrote
          /\ \A i \in 1..Len(last.hout.calls) :
                /\ last.hout.calls[i].args = <<>>
                /\ last.hout.calls[i].seen = last.raise.cause
    /\ (Received /\ last.h = "Recover") =>
          \A i \in 1..Len(last.hout.calls) :
             last.hout.calls[i].args = <<last.raise.cause, CallersFrames(last.raise.site)>>
    /\ (Received /\ last.h = "F") =>
          /\ HandsOutEnvelope
          /\ last.hout.calls[1].args = <<wrapError(last.raise.cause, last.raise.site)>>
          /\ ~last.hout.panics
          /\ payload = NilAny

C14_Witness ==
    /\ Received /\ last.h = "F" /\ HandsOutEnvelope /\ ~panicking
    /\ last.hout.calls[1].args[1] = wrapError(ErrUnexpectedEOF, <<3, 4>>)

\* C15: from the raise until a handler receives it the panic stays in
\* flight with the same envelope; the only step that ends it is the call of
\* the nearest enclosing deferred handler, which ends the panic (a panic
\* after it is a new raise made by the handler's callback), and with such a
\* handler that call always comes; with none the goroutine always ends
\* crashed.
Unconsumed == inflight.active /\ ~inflight.fpanic /\ inflight.observers = 0

C15_UnwindRunsToRecoveryOrCrash ==
    /\ [](Unconsumed =>
            /\ panicking
            /\ payload = wrapError(inflight.cause, inflight.site)
            /\ status \in {"running", "crashed"})
    /\ [](Received => (panicking => last.hout.walks > 0 /\ Unconsumed))
    /\ [][(Unconsumed /\ inflight' # inflight) =>
             /\ last'.op = "handler"
             /\ last'.recovered = payload
             /\ <<last'.depth, Len(stack[last'.depth].defers)>> = inflight.target]_vars
    /\ (Unconsumed /\ inflight.target # NoPC) ~> Received
    /\ (Unconsumed /\ inflight.target = NoPC) ~> (status = "crashed")

C15_Witness ==
    /\ Received /\ last.depth = 1 /\ last.before[1].line = 4
    /\ last.raise.site[2] = 10 /\ last.raise.target = <<1, 2>> /\ ~panicking

C15_WitnessCrash ==
    /\ Unconsumed /\ inflight.target = NoPC /\ status = "crashed"
    /\ last.before[1].line = 4

\* C16: an envelope is in flight only after a call of an E function with a
\* non-nil error (in the body or in a handler's callback), so the envelope a
\* handler receives never has a nil cause; and a panic with an envelope ends
\* only in the call of a deferred handler.
EnvelopeInFlight == panicking /\ payload.kind = "wrapError"

C16_UnwindingOnlyByRaise ==
    /\ EnvelopeInFlight =>
          /\ payload.error # Nil /\ payload.error \in Errors
          /\ inflight.active /\ inflight.cause = payload.error
          /\ (last.op \in Body => last.op = "E" /\ last.err = payload.error)
          /\ (last.op = "handler" => last.hout.walks = 1 /\ last.fn = "raise")
    /\ (last.op = "E" /\ last.err = Nil) => ~panicking
    /\ Received => last.recovered.error # Nil /\ last.wasPanicking
    /\ (last.op \in Body \cup {"pop"} /\ last.wasPanicking) => panicking
    /\ (last.op = "pop" /\ ~last.wasPanicking) => ~panicking
    /\ (last.op = "handler" /\ last.wasPanicking /\ ~panicking) =>
          last.recovered.kind \in {"wrapError", "nil"}

C16_Witness ==
    /\ Received /\ last.h = "HandleF" /\ last.fn = "replace"
    /\ last.recovered.error = EOF /\ ~panicking /\ stack[top].err = ErrUnexpectedEOF

\* C17: in a program of several goroutines a raise unwinds only the stack
\* of the goroutine that made it: a step of one goroutine changes nothing of
\* another, a handler only ever receives an envelope raised in its own
\* goroutine, a handler of a goroutine that is not panicking does nothing
\* even while another goroutine is panicking, and a goroutine that raises
\* with no handler of its own ends crashed whatever the others deferred.
Others(t) == Tasks \ {t}

C17_TasksIsolated ==
    /\ \A t \in Tasks :
          /\ tasks[t].panicking =>
                /\ tasks[t].payload.kind = "wrapError"
                /\ tasks[t].payload.pc[1] = TaskFile[t]
                /\ tasks[t].inflight.active
                /\ tasks[t].payload.error = tasks[t].inflight.cause
          /\ (tasks[t].inflight.active /\ tasks[t].inflight.target = NoPC) =>
                /\ tasks[t].panicking
                /\ tasks[t].inflight.observers = 0
                /\ tasks[t].status \in {"running", "crashed"}
          /\ (tasks[t].status = "done" /\ tasks[t].inflight.observers = 0) =>
                tasks[t].stack[1].err = Nil
          /\ tasks[t].stack[1].err # Nil =>
                /\ tasks[t].inflight.by = "Handle"
                /\ tasks[t].stack[1].err = tasks[t].inflight.cause
    /\ last.task \in Tasks =>
          /\ \A u \in Others(last.task) : tasks[u] = last.before[u]
          /\ (last.op = "handler" /\ last.recovered.kind = "wrapError") =>
                /\ last.recovered = last.before[last.task].payload
                /\ last.recovered.pc[1] = TaskFile[last.task]
                /\ last.before[last.task].panicking
          /\ (last.op = "handler" /\ ~last.before[last.task].panicking) =>
                /\ last.recovered = NilAny
                /\ last.hout = NoOp(last.slot0)
          /\ (last.op = "pop" /\ last.wasPanicking) =>
                /\ tasks[last.task].status = "crashed"
                /\ ~ProcessAlive

C17_Witness ==
    /\ last.op = "handler" /\ last.task = 2 /\ last.h = "Handle"
    /\ ~last.before[2].panicking /\ last.recovered = NilAny
    /\ tasks[1].panicking /\ tasks[1].payload = wrapError(EOF, <<3, 10>>)
    /\ tasks[1].stack[1].defers = <<"Handle">>
    /\ tasks[2].stack[1].err = Nil

C17_WitnessFatal ==
    /\ tasks[1].status = "crashed" /\ tasks[1].inflight.target = NoPC
    /\ tasks[2].status = "running" /\ tasks[2].stack[1].defers = <<"Handle">>
    /\ tasks[2].stack[1].err = Nil

C17_WitnessBoth ==
    /\ tasks[1].status = "done" /\ tasks[1].stack[1].err = EOF
    /\ tasks[2].status = "done" /\ tasks[2].stack[1].err = ErrUnexpectedEOF

\* C18: a call of HandleF calls fn once when it receives a raise, whatever
\* the error raised and whatever the error variable held, and not at all
\* when the function returns normally or panics with another value.
C18_HandleFCallsFnOncePerRaise ==
    (last.op = "handler" /\ last.h = "HandleF") =>
       /\ Len(last.hout.calls) = (IF last.recovered.kind = "wrapError" THEN 1 ELSE 0)
       /\ last.recovered.kind = "wrapError" =>
             /\ last.recovered.error # Nil
             /\ last.hout.calls[1].fn = last.fn
             /\ last.raise.observers = 0
       /\ last.recovered.kind = "foreign" =>
             /\ last.hout.panics /\ last.hout.payload = last.recovered
             /\ ~last.hout.wrote
       /\ last.recovered.kind = "nil" => last.hout = NoOp(last.slot0)

C18_Witness ==
    /\ Received /\ last.h = "HandleF" /\ last.fn = "ignore"
    /\ last.slot0 = Nil /\ last.recovered.error = ErrUnexpectedEOF
    /\ Len(last.hout.calls) = 1 /\ stack[top].err = ErrUnexpectedEOF

C18_WitnessForeign ==
    /\ last.op = "handler" /\ last.h = "HandleF" /\ last.recovered = Foreign("boom")
    /\ last.hout.calls = <<>> /\ panicking

\* C19: a raise made in the callback of HandleF or Recover is not received
\* by the handler that called the callback: it is a new panic, on its way to
\* the next enclosing deferred handler, or to a crash when there is none.
\* As the claim has it, the error variable of the function then holds the
\* error first raised, for both forms.
RaisedInCallback ==
    Received /\ last.h \in {"HandleF", "Recover"} /\ last.fn = "raise"

NewUnwindFromCallback ==
    /\ panicking
    /\ payload = wrapError(ErrUnexpectedEOF, <<last.before[last.depth].file, 7>>)
    /\ payload = last.hout.payload
    /\ inflight.active /\ inflight.observers = 0
    /\ inflight.site = payload.pc
    /\ inflight.target = Innermost(stack)
    /\ inflight.target # Place
    /\ Len(last.hout.calls) = 1

C19_CallbackRaiseKeepsFirstCause ==
    RaisedInCallback =>
       /\ NewUnwindFromCallback
       /\ stack[top].err = last.raise.cause

\* C19, amended: HandleF has assigned the error first raised before the
\* callback ran, so the error variable holds it; Recover assigns nothing, so
\* the error variable is as the function left it.  The new panic is
\* received by the next enclosing handler only, and with none the run ends
\* crashed.
C19_CallbackRaiseIsNewUnwind ==
    /\ RaisedInCallback =>
          /\ NewUnwindFromCallback
          /\ (last.h = "HandleF" =>
                last.hout.wrote /\ stack[top].err = last.raise.cause)
          /\ (last.h = "Recover" =>
                ~last.hout.wrote /\ stack[top].err = last.slot0)
    /\ (Received /\ last.raise.site[2] = 7) =>
          /\ Place = last.raise.target
          /\ last.recovered = wrapError(ErrUnexpectedEOF, last.raise.site)
    /\ (inflight.active /\ inflight.site[2] = 7 /\ inflight.target = NoPC) =>
          /\ panicking /\ status \in {"running", "crashed"}
          /\ (stack = <<>> => status = "crashed" /\ result.payload.error = ErrUnexpectedEOF)

C19_Witness ==
    /\ Received /\ last.h = "Handle" /\ last.raise.site[2] = 7
    /\ last.raise.target = <<1, 1>> /\ last.before[1].defers = <<"Handle">>
    /\ stack[top].err = ErrUnexpectedEOF /\ ~panicking

C19_WitnessHandleF ==
    /\ RaisedInCallback /\ last.h = "HandleF" /\ last.raise.cause = EOF
    /\ stack[top].err = EOF /\ panicking /\ inflight.target # NoPC

C19_WitnessFatal ==
    /\ inflight.active /\ inflight.site[2] = 7 /\ inflight.target = NoPC
    /\ status = "crashed" /\ inflight.by = "none"

====
